---- MODULE Spec2Model ----
(***************************************************************************)
(* Distributed Monte-Carlo simulation over RabbitMQ: one Productor         *)
(* (dispatcher), several ConsumidorEscenarios (workers) and the three      *)
(* durable queues cola_modelo, cola_escenarios and cola_resultados.        *)
(*                                                                         *)
(* A message is a record [camp, id, ok]: camp is the campaign (the run of  *)
(* the Productor that published it, 0 for a message that no Productor of   *)
(* this system published), id the scenario id (0 for a model message) and  *)
(* ok whether its body parses (json.loads and Modelo.deserializar).        *)
(***************************************************************************)
EXTENDS Integers, Sequences, FiniteSets, TLC

\* ------------------------------------------------------------------ bounds
MaxEscenarios == 2     \* scenarios published in a behaviour, over all the runs
MaxFallos == 1         \* failures, interrupts, foreign messages, bad scenarios and
                       \* expiries in a behaviour

\* the deployment: two workers, and the Productor run twice
Consumidores == {"consumer_1", "consumer_2"}
Corridas == {1, 2}

VARIABLES
    \* Productor
    pc,                     \* position of Productor.ejecutar
    corrida,                \* which run of the Productor this is (the campaign)
    num_escenarios,         \* Productor.num_escenarios
    escenarios_publicados,  \* Productor.escenarios_publicados
    publicadorProd,         \* Productor.publicador: "none", "open", "closed"
    idsPublicados,          \* ids handed to publicar_escenario in this run, in order
    enviados,               \* every scenario message published, over all runs
    conexionesProd,         \* connections to the broker this run attempted
    modeloEnviado,          \* publicar_modelo of this run returned
    modeloProd,             \* Productor.modelo
    malos,                  \* scenario messages whose evaluation always raises
    \* broker
    cola_modelo,            \* ready messages of cola_modelo
    cola_escenarios,        \* ready messages of cola_escenarios
    cola_resultados,        \* messages of cola_resultados
    unacked,                \* per worker: deliveries not yet acknowledged
    sueltas,                \* per process: connections opened by a constructor
                            \* that raised, bound to no field and not closed
    \* ConsumidorEscenarios
    estado,                 \* position of ConsumidorEscenarios.ejecutar
    modelo,                 \* self.modelo: 0 is None, else the campaign of the model
    modelo_cargado,         \* self.modelo_cargado
    publicador,             \* self.publicador: "none", "open", "closed"
    consumidor,             \* the worker's Consumidor: "none", "modelo", "escenarios", "closed"
    escenarios_procesados,  \* self.escenarios_procesados
    resultados_publicados,  \* self.resultados_publicados
    \* observation
    confirmados,            \* scenario deliveries acknowledged: [msg, por]
    modelosConfirmados,     \* per worker: model messages acknowledged
    rechazados,             \* deliveries negatively acknowledged: [cola, msg]
    resultadosEnviados,     \* every Resultado published, in order
    vencidos,               \* campaigns whose model outlived its TTL in cola_modelo
    \* model_parser, taken by itself: one model on its way through the engine
    archivo,                \* the text of a model file given to parsear_archivo
    objeto,                 \* a Modelo (Modelo.funcion, Modelo.variables)
    mensaje,                \* a model message: the dict of Modelo.serializar
    valores,                \* the value mapping of a scenario
    resultado,              \* what Modelo.ejecutar did with objeto and valores
    \* dashboard.py
    unackedDash,            \* deliveries of cola_resultados not yet acknowledged
    resultadosDash,         \* ResultadoReceiver.resultados
    estadisticasDash,       \* ResultadoReceiver.estadisticas_consumidores
    senalesDash,            \* resultado_recibido emitted, its slot not yet run
    panelDash,              \* Dashboard.resultados
    graficoDash,            \* GraficoResultados.resultados, a deque
    historialDash,          \* how each delivery to callback_resultado ended
    \* ResultadoReceiver: its thread
    ejecutando,             \* ResultadoReceiver.ejecutando
    hilo,                   \* ResultadoReceiver.hilo: the thread started last, 0: None
    estadoHilo,             \* per thread: where _consumir_resultados stands
    consumidorRec,          \* ResultadoReceiver.consumidor: whose Consumidor, 0: None
    conexionHilo,           \* per thread: the connection of the Consumidor it made
    fallos                  \* failures, interrupts and foreign messages so far

vars == <<pc, corrida, num_escenarios, escenarios_publicados, publicadorProd,
          idsPublicados, enviados, conexionesProd, modeloEnviado, modeloProd,
          malos,
          cola_modelo, cola_escenarios, cola_resultados,
          unacked, estado, modelo, modelo_cargado, publicador, consumidor,
          escenarios_procesados, resultados_publicados, confirmados,
          modelosConfirmados, rechazados,
          resultadosEnviados, vencidos, archivo, objeto, mensaje, valores,
          resultado, unackedDash, resultadosDash, estadisticasDash,
          senalesDash, panelDash, graficoDash, historialDash, ejecutando,
          hilo, estadoHilo, consumidorRec, conexionHilo, sueltas, fallos>>

varsProd == <<pc, corrida, num_escenarios, escenarios_publicados, publicadorProd,
              idsPublicados, enviados, conexionesProd, modeloEnviado, modeloProd,
              malos>>
varsCons == <<estado, modelo, modelo_cargado, publicador, consumidor,
              escenarios_procesados, resultados_publicados>>
varsObs == <<confirmados, modelosConfirmados, rechazados, resultadosEnviados,
             vencidos>>

varsMotor == <<archivo, objeto, mensaje, valores, resultado>>
varsDash == <<unackedDash, resultadosDash, estadisticasDash, senalesDash,
              panelDash, graficoDash, historialDash>>
varsRec == <<ejecutando, hilo, estadoHilo, consumidorRec, conexionHilo>>
\* what the Productor and the workers never touch
varsAparte == <<varsMotor, varsDash, varsRec>>

\* the threads a ResultadoReceiver starts, in the order of their start
MaxHilos == 2
Hilos == 1 .. MaxHilos

\* the processes: one per worker, and producer.py
Procesos == Consumidores \cup {"productor"}

\* num_escenarios is int(sys.argv[2]); a run is given no more scenarios than
\* the behaviour has left
ValoresNumEscenarios == 0 .. (MaxEscenarios - Cardinality(enviados))

\* ------------------------------------------------------------------ messages
\* None, and a variable of the model that holds nothing yet
Nada == [tipo |-> "nada"]

MensajeModelo(c) == [camp |-> c, id |-> 0, ok |-> TRUE]
MensajeEscenario(c, i) == [camp |-> c, id |-> i, ok |-> TRUE]
\* a body that json.loads (or Modelo.deserializar) rejects
MensajeCorrupto == [camp |-> 0, id |-> 0, ok |-> FALSE]

\* the messages a queue (or a worker's unacknowledged deliveries) holds
Mensajes(cola) == {cola[k] : k \in 1 .. Len(cola)}

Resultado(w, m, mod) ==
    [consumer_id |-> w, camp |-> m.camp, escenario_id |-> m.id, modelo |-> mod]

\* ------------------------------------------------------------------ broker
\* basic_publish: the message is appended to the ready messages of the queue
BasicPublish(cola, m) == Append(cola, m)

\* queue_purge: every ready message is removed (deliveries in flight are not)
QueuePurge(cola) == << >>

\* mutant: unacknowledged deliveries dropped instead of requeued
SinRequeue(cola, pendientes) == cola

\* basic_nack(requeue=True), and the broker's requeue of the unacknowledged
\* deliveries of a closed channel: the message goes back to the head
Requeue(cola, pendientes) == pendientes \o cola

\* basic_nack(delivery_tag, requeue): what the queue holds afterwards
BasicNack(cola, pendientes, requeue) ==
    IF requeue THEN Requeue(cola, pendientes) ELSE cola

\* mutant: a delivery that leaves the message ready for the other consumers
TrasEntregaSinRetirar(cola) == cola

\* basic_consume with auto_ack=False on a queue: a delivered message is no
\* longer ready, it is held by the one consumer it went to
TrasEntrega(cola) == Tail(cola)

\* mutant: cola_modelo declared without x-message-ttl
TrasVencerSinTTL(cola) == cola

\* x-message-ttl of cola_modelo (MODEL_TIMEOUT * 1000 ms): once that long has
\* passed since the last publication, the broker has discarded every message
\* that was ready
TrasVencer(cola) == << >>

\* mutant: basic_qos(prefetch_count=2)
PrefetchDos == 1 + 1

\* prefetch_count of basic_qos in cargar_modelo_desde_cola and iniciar_consumo
PrefetchCount == 1

HayFallo == fallos < MaxFallos

\* --------------------------------------------------------------- model_parser
\* The engine by itself: a model file is parsed, the Modelo is serialized and
\* deserialized, scenarios are generated and evaluated. A funcion is kept as
\* the set of names its expression reads, a parameter text as itself.
MaxLineas == 2

NombresVariables == {"x", "y"}
Distribuciones == {"normal", "Normal", "poisson"}
TextosParametros == {"", "media=2", "media=dos"}
Expresiones == {{"x"}, {"x", "y"}, {"x", "sqrt"}, {"x", "np"}, {"x", "z"}}

\* the lines below the VARIABLES: header: one that does not have the shape
\* name: distribution(...), or one that has
LineasPosibles ==
    {[coincide |-> FALSE, nombre |-> "x", distribucion |-> "normal", texto |-> ""]}
    \cup [coincide : {TRUE}, nombre : NombresVariables,
          distribucion : Distribuciones, texto : TextosParametros]

SecuenciasHasta(S, n) == UNION {[1 .. k -> S] : k \in 0 .. n}

Archivos ==
    [tipo : {"archivo"}, tieneFuncion : {TRUE}, funcion : Expresiones,
     encabezado : {TRUE}, lineas : SecuenciasHasta(LineasPosibles, MaxLineas)]
    \cup [tipo : {"archivo"}, tieneFuncion : {FALSE}, funcion : {{}},
          encabezado : {TRUE}, lineas : SecuenciasHasta(LineasPosibles, MaxLineas)]
    \cup [tipo : {"archivo"}, tieneFuncion : {TRUE}, funcion : Expresiones,
          encabezado : {FALSE}, lineas : {<< >>}]

ErrorValor == [tipo |-> "error", clase |-> "ValueError"]

\* str.lower
Lower(s) == IF s = "Normal" THEN "normal" ELSE s

\* float(valor) of every param=valor of the text; "dos" is no number
TextoNumerico(texto) == texto # "media=dos"
ParametrosDe(texto) == IF texto = "media=2" THEN {<<"media", 2>>} ELSE {}

\* Variable.__init__
Variable(nombre, distribucion, parametros) ==
    [nombre |-> nombre, distribucion |-> Lower(distribucion),
     parametros |-> parametros]

\* {var.nombre: var for var in variables}: a dict keeps the place of a key
\* that is assigned again and takes the new value
RECURSIVE DictDe(_)
DictDe(variables) ==
    IF variables = << >> THEN << >>
    ELSE LET antes == DictDe(SubSeq(variables, 1, Len(variables) - 1))
             var == variables[Len(variables)]
         IN  IF \E i \in 1 .. Len(antes) : antes[i].nombre = var.nombre
             THEN [i \in 1 .. Len(antes) |->
                     IF antes[i].nombre = var.nombre THEN var ELSE antes[i]]
             ELSE Append(antes, var)

\* Modelo.__init__
Modelo(funcion, variables) ==
    [tipo |-> "modelo", funcion |-> funcion, variables |-> DictDe(variables)]

NombresDeclarados(m) == {m.variables[i].nombre : i \in 1 .. Len(m.variables)}

\* the variables of the lines that match, in the order of the file
RECURSIVE VariablesDeLineas(_)
VariablesDeLineas(lineas) ==
    IF lineas = << >> THEN << >>
    ELSE LET l == Head(lineas)
         IN  IF ~l.coincide THEN VariablesDeLineas(Tail(lineas))
             ELSE <<Variable(l.nombre, l.distribucion, ParametrosDe(l.texto))>>
                  \o VariablesDeLineas(Tail(lineas))

\* ParserModelo.parsear_archivo. The VARIABLES pattern wants the header and a
\* non-empty line below it; a line that matches is converted with float().
ParsearArchivo(a) ==
    IF ~a.tieneFuncion THEN ErrorValor
    ELSE IF ~a.encabezado \/ a.lineas = << >> THEN ErrorValor
    ELSE IF \E i \in 1 .. Len(a.lineas) :
                a.lineas[i].coincide /\ ~TextoNumerico(a.lineas[i].texto)
         THEN ErrorValor
    ELSE Modelo(a.funcion, VariablesDeLineas(a.lineas))

\* Modelo.serializar
Serializar(m) ==
    [tipo |-> "mensaje", funcion |-> m.funcion,
     variables |-> [i \in 1 .. Len(m.variables) |->
                      [nombre |-> m.variables[i].nombre,
                       distribucion |-> m.variables[i].distribucion,
                       parametros |-> m.variables[i].parametros]]]

\* Modelo.deserializar
Deserializar(d) ==
    Modelo(d.funcion,
           [i \in 1 .. Len(d.variables) |->
              Variable(d.variables[i].nombre, d.variables[i].distribucion,
                       d.variables[i].parametros)])

\* the model messages a process may find in cola_modelo
MensajesModelo ==
    [tipo : {"mensaje"}, funcion : Expresiones,
     variables : SecuenciasHasta([nombre : NombresVariables,
                                  distribucion : Distribuciones,
                                  parametros : {{}, {<<"media", 2>>}}],
                                 MaxLineas)]

Soportadas == {"normal", "uniform", "exponencial", "triangular"}

\* mutant: generar_valor falling back to some distribution for an unknown kind
GeneraValorSiempre(var) == TRUE

\* Variable.generar_valor: a number, or ValueError
GeneraValor(var) == var.distribucion \in Soportadas

\* the key under which generar_escenario stores the value of a variable
ClaveEnUnaSola(nombre) == "x"
ClaveEscenario(nombre) == nombre

\* Modelo.generar_escenario: the keys it has written, a value for each
GenerarEscenario(m) ==
    IF \E i \in 1 .. Len(m.variables) : ~GeneraValor(m.variables[i])
    THEN ErrorValor
    ELSE [tipo |-> "valores",
          claves |-> {ClaveEscenario(m.variables[i].nombre) :
                        i \in 1 .. Len(m.variables)}]

\* the names Modelo.ejecutar adds to the copy of valores
FuncionesContexto ==
    {"np", "sin", "cos", "exp", "log", "sqrt", "abs", "max", "min"}

Contexto(v) == v.claves \cup FuncionesContexto

\* valores after Modelo.ejecutar: contexto is a copy
TrasEjecutarSinCopia(v) == [v EXCEPT !.claves = Contexto(v)]
TrasEjecutar(v) == v

\* Modelo.ejecutar: eval with no builtins and contexto as the locals; a name
\* that is not in contexto raises NameError, which leaves as ValueError
EjecutarModelo(m, v) ==
    IF m.funcion \subseteq Contexto(v)
    THEN [tipo |-> "valor", nombres |-> m.funcion]
    ELSE ErrorValor

\* the value mappings a scenario message may carry
ValoresPosibles ==
    [tipo : {"valores"}, claves : SUBSET (NombresVariables \cup {"z"})]

\* the model files producer.py is run with in the runs below: one whose
\* variable has a distribution generar_valor knows, one whose has not
ArchivoNormal ==
    [tipo |-> "archivo", tieneFuncion |-> TRUE, funcion |-> {"x"},
     encabezado |-> TRUE,
     lineas |-> <<[coincide |-> TRUE, nombre |-> "x",
                   distribucion |-> "normal", texto |-> "media=2"]>>]
ArchivoPoisson ==
    [tipo |-> "archivo", tieneFuncion |-> TRUE, funcion |-> {"x"},
     encabezado |-> TRUE,
     lineas |-> <<[coincide |-> TRUE, nombre |-> "x",
                   distribucion |-> "poisson", texto |-> "media=2"]>>]
ArchivoDe(res) == IF res = "distribucion" THEN ArchivoPoisson ELSE ArchivoNormal

\* ------------------------------------------------------------------ Productor
\* mutant: range(num_escenarios) instead of range(1, num_escenarios + 1)
IdEscenarioDesdeCero(k) == k - 1

\* range(1, num_escenarios + 1): the id of the k-th iteration
IdEscenario(k) == k

\* mutant: range(1, num_escenarios + 2), one iteration more
QuedanEscenariosUnoMas(k, n) == k <= n

\* the loop of generar_y_publicar_escenarios goes on after k publications
QuedanEscenarios(k, n) == k + 1 <= n

\* no process started, the queues empty
Reposo ==
    /\ pc = "NOT_STARTED"
    /\ corrida = 0
    /\ num_escenarios = 0
    /\ escenarios_publicados = 0
    /\ publicadorProd = "none"
    /\ idsPublicados = << >>
    /\ enviados = {}
    /\ conexionesProd = 0
    /\ modeloEnviado = FALSE
    /\ modeloProd = Nada
    /\ malos = {}
    /\ cola_modelo = << >>
    /\ cola_escenarios = << >>
    /\ cola_resultados = << >>
    /\ unacked = [w \in Consumidores |-> << >>]
    /\ estado = [w \in Consumidores |-> "INIT"]
    /\ modelo = [w \in Consumidores |-> 0]
    /\ modelo_cargado = [w \in Consumidores |-> FALSE]
    /\ publicador = [w \in Consumidores |-> "none"]
    /\ consumidor = [w \in Consumidores |-> "none"]
    /\ escenarios_procesados = [w \in Consumidores |-> 0]
    /\ resultados_publicados = [w \in Consumidores |-> 0]
    /\ confirmados = {}
    /\ modelosConfirmados = [w \in Consumidores |-> 0]
    /\ rechazados = {}
    /\ resultadosEnviados = << >>
    /\ vencidos = {}
    /\ sueltas = [p \in Procesos |-> 0]
    /\ fallos = 0

\* no model in the engine
MotorVacio ==
    /\ archivo = Nada
    /\ objeto = Nada
    /\ mensaje = Nada
    /\ valores = Nada
    /\ resultado = Nada

\* ResultadoReceiver.__init__, Dashboard.__init__ and GraficoResultados.__init__
DashVacio ==
    /\ unackedDash = << >>
    /\ resultadosDash = << >>
    /\ estadisticasDash =
          [w \in Consumidores \cup {"unknown"} |->
              [escenarios_procesados |-> 0, resultados_publicados |-> 0]]
    /\ senalesDash = << >>
    /\ panelDash = << >>
    /\ graficoDash = << >>
    /\ historialDash = << >>

\* ResultadoReceiver.__init__: no thread yet
RecVacio ==
    /\ ejecutando = FALSE
    /\ hilo = 0
    /\ estadoHilo = [h \in Hilos |-> "none"]
    /\ consumidorRec = 0
    /\ conexionHilo = [h \in Hilos |-> "none"]

Init == Reposo /\ MotorVacio /\ DashVacio /\ RecVacio

\* mutant: publicar_modelo without the call of purgar_cola_modelo
PublicarSinPurgar(cola, c) == BasicPublish(cola, MensajeModelo(c))

\* Publicador.purgar_cola_modelo followed by Publicador.publicar_modelo: what
\* cola_modelo holds when both have returned
PurgarYPublicar(cola, c) == BasicPublish(QueuePurge(cola), MensajeModelo(c))

\* Productor.publicar_modelo: what cola_modelo holds when it returned or raised.
\* A queue_purge that raises is only reported, but it leaves the channel
\* closed, so the basic_publish that follows raises ("purga"); basic_publish
\* may also raise after a purge that worked ("publicar").
ColaTrasPublicarModelo(cola, c, res) ==
    CASE res = "ok" -> PurgarYPublicar(cola, c)
      [] res = "publicar" -> QueuePurge(cola)
      [] OTHER -> cola

\* Productor.ejecutar: where the run stands once the model is published and k
\* scenarios are: in the loop, or past it and past the finally
TrasPublicar(k, n) ==
    IF QuedanEscenarios(k, n) THEN "GENERATE_AND_PUBLISH_SCENARIOS" ELSE "DONE"

\* Productor.publicador when ejecutar raised at stage res
PublicadorTrasError(res) ==
    IF res \in {"cargar", "conectar", "declarar"} THEN "none" ELSE "closed"

\* Publicador() and Consumidor() connect in ManejadorMensajes.__init__ and
\* then declare their queues: when queue_declare raises ("declarar") the
\* connection is open and the object is bound to nothing
SueltasTras(res) == IF res = "declarar" THEN 1 ELSE 0

\* mutant: ejecutar calling inicializar_publicador before cargar_modelo
ConexionesTrasConectarPrimero(res) == 1

\* Productor.ejecutar: how many times the run called Publicador() when it
\* returned or raised at stage res; cargar_modelo comes first, and no publish
\* operation of Publicador reconnects
ConexionesTras(res) == IF res = "cargar" THEN 0 ELSE 1

\* main() of producer.py with num_escenarios n, and Productor.ejecutar up to
\* the publication of the model: cargar_modelo (it raises: "cargar"),
\* inicializar_publicador (Publicador() raises, in _conectar: "conectar", in
\* _declarar_colas: "declarar"), publicar_modelo
\* ("purga", "publicar"); with no scenario to publish also the end of ejecutar
\* the stage at which ejecutar raised before the loop, "ok" when it got there
Etapa(res) == IF res = "distribucion" THEN "ok" ELSE res

\* self.modelo after cargar_modelo
ModeloTrasCargar(res) ==
    IF res = "cargar" THEN Nada ELSE ParsearArchivo(ArchivoDe(res))

Ejecutar(n, res) ==
    /\ pc \in {"NOT_STARTED", "DONE", "ERROR"}
    /\ corrida + 1 \in Corridas
    /\ res # "ok" => HayFallo
    /\ corrida' = corrida + 1
    /\ num_escenarios' = n
    /\ escenarios_publicados' = 0
    /\ idsPublicados' = << >>
    /\ conexionesProd' = ConexionesTras(res)
    /\ modeloProd' = ModeloTrasCargar(res)
    /\ modeloEnviado' = (Etapa(res) = "ok")
    /\ sueltas' = [sueltas EXCEPT !["productor"] = SueltasTras(res)]
    /\ cola_modelo' = IF res \in {"cargar", "conectar", "declarar"} THEN cola_modelo
                      ELSE ColaTrasPublicarModelo(cola_modelo, corrida', Etapa(res))
    /\ IF Etapa(res) = "ok"
       THEN /\ pc' = TrasPublicar(0, n)
            /\ publicadorProd' = IF pc' = "DONE" THEN "closed" ELSE "open"
            /\ fallos' = IF res = "ok" THEN fallos ELSE fallos + 1
       ELSE /\ pc' = "ERROR"
            /\ publicadorProd' = PublicadorTrasError(res)
            /\ fallos' = fallos + 1
    /\ UNCHANGED <<enviados, malos, cola_escenarios, cola_resultados, unacked>>
    /\ UNCHANGED varsCons
    /\ UNCHANGED varsObs
    /\ UNCHANGED varsAparte

\* one iteration of the loop of Productor.generar_y_publicar_escenarios; after
\* the last one also the end of ejecutar (finally: publicador.cerrar()).
\* res "malo": generar_escenario drew values with which Modelo.ejecutar raises;
\* res "distribucion": generar_escenario raises, as it does for every scenario
\* of a model with a distribution generar_valor does not know
PublicarEscenario(res) ==
    /\ pc = "GENERATE_AND_PUBLISH_SCENARIOS"
    /\ res \notin {"ok", "distribucion"} => HayFallo
    /\ res = "distribucion" <=> GenerarEscenario(modeloProd).tipo = "error"
    /\ IF res \in {"ok", "malo"}
       THEN LET i == IdEscenario(escenarios_publicados + 1)
                m == MensajeEscenario(corrida, i)
            IN /\ cola_escenarios' = BasicPublish(cola_escenarios, m)
               /\ idsPublicados' = Append(idsPublicados, i)
               /\ enviados' = enviados \cup {m}
               /\ escenarios_publicados' = escenarios_publicados + 1
               /\ pc' = TrasPublicar(escenarios_publicados', num_escenarios)
               /\ publicadorProd' = IF pc' = "DONE" THEN "closed" ELSE publicadorProd
               /\ malos' = IF res = "malo" THEN malos \cup {m} ELSE malos
               /\ fallos' = IF res = "malo" THEN fallos + 1 ELSE fallos
       ELSE /\ pc' = "ERROR"
            /\ publicadorProd' = "closed"
            /\ fallos' = IF res = "distribucion" THEN fallos ELSE fallos + 1
            /\ UNCHANGED <<cola_escenarios, idsPublicados, enviados,
                           escenarios_publicados, malos>>
    /\ UNCHANGED <<corrida, num_escenarios, conexionesProd, modeloEnviado,
                   modeloProd>>
    /\ UNCHANGED <<cola_modelo, cola_resultados, unacked>>
    /\ UNCHANGED varsCons
    /\ UNCHANGED varsObs
    /\ UNCHANGED varsAparte
    /\ UNCHANGED sueltas

\* ------------------------------------------------------- ConsumidorEscenarios
\* ConsumidorEscenarios.ejecutar: the except/finally that ends a worker whose
\* run raised (finally: publicador.cerrar() when there is a publicador)
ConsFalla(w) ==
    /\ estado' = [estado EXCEPT ![w] = "ERROR"]
    /\ publicador' = [publicador EXCEPT
                        ![w] = IF publicador[w] = "open" THEN "closed" ELSE @]

\* ConsumidorEscenarios.ejecutar up to the start_consuming of
\* cargar_modelo_desde_cola: inicializar_publicador (Publicador() raises:
\* "publicador"), then the temporary Consumidor(COLA_MODELO) (it raises:
\* in _conectar: "consumidor", in queue_declare: "declarar"), basic_qos and
\* basic_consume
Arrancar(w, res) ==
    /\ estado[w] = "INIT"
    /\ res # "ok" => HayFallo
    /\ CASE res = "ok" ->
              /\ publicador' = [publicador EXCEPT ![w] = "open"]
              /\ consumidor' = [consumidor EXCEPT ![w] = "modelo"]
              /\ estado' = [estado EXCEPT ![w] = "AWAITING_MODEL"]
              /\ UNCHANGED fallos
         [] res = "publicador" ->
              /\ ConsFalla(w)
              /\ fallos' = fallos + 1
              /\ UNCHANGED consumidor
         [] OTHER ->
              /\ estado' = [estado EXCEPT ![w] = "ERROR"]
              /\ publicador' = [publicador EXCEPT ![w] = "closed"]
              /\ fallos' = fallos + 1
              /\ UNCHANGED consumidor
    /\ sueltas' = [sueltas EXCEPT ![w] = SueltasTras(res)]
    /\ UNCHANGED <<modelo, modelo_cargado, escenarios_procesados,
                   resultados_publicados>>
    /\ UNCHANGED <<cola_modelo, cola_escenarios, cola_resultados, unacked>>
    /\ UNCHANGED varsProd
    /\ UNCHANGED varsObs
    /\ UNCHANGED varsAparte

\* the broker delivers the head of cola_modelo to a worker consuming it, within
\* the prefetch limit
EntregarModelo(w) ==
    /\ estado[w] = "AWAITING_MODEL"
    /\ consumidor[w] = "modelo"
    /\ Len(unacked[w]) < PrefetchCount
    /\ cola_modelo # << >>
    /\ unacked' = [unacked EXCEPT ![w] = Append(@, Head(cola_modelo))]
    /\ cola_modelo' = TrasEntrega(cola_modelo)
    /\ UNCHANGED <<cola_escenarios, cola_resultados, fallos>>
    /\ UNCHANGED varsProd
    /\ UNCHANGED varsCons
    /\ UNCHANGED varsObs
    /\ UNCHANGED varsAparte
    /\ UNCHANGED sueltas

\* iniciar_consumo up to start_consuming: where the worker stands after the
\* two checks and Consumidor(COLA_ESCENARIOS) (res: it connects or raises)
\* mutant: iniciar_consumo without its two checks
IniciarConsumoSinComprobar(cargado, pub, res) ==
    IF res = "ok" THEN "STEADY_STATE" ELSE "ERROR"

IniciarConsumo(cargado, pub, res) ==
    IF cargado /\ pub # "none" /\ res = "ok" THEN "STEADY_STATE" ELSE "ERROR"

\* mutant: callback_modelo without ch.stop_consuming()
SigueEsperando(cargo) == FALSE

\* callback_modelo: the wait of cargar_modelo_desde_cola ends (stop_consuming)
\* only after a model that loaded
TerminaEspera(cargo) == cargo

\* mutant: basic_nack(requeue=False) in the except clause of callback_modelo
RequeueModeloFalse == FALSE

\* requeue of the basic_nack in the except clause of callback_modelo
RequeueModelo == TRUE

\* callback_modelo; after a model that loaded also the return of
\* start_consuming, consumidor_modelo.cerrar() and iniciar_consumo up to its
\* start_consuming (res: Consumidor(COLA_ESCENARIOS) connects or raises)
CallbackModelo(w, res) ==
    /\ estado[w] = "AWAITING_MODEL"
    /\ unacked[w] # << >>
    /\ LET m == Head(unacked[w])
           sigue == IniciarConsumo(TRUE, publicador[w], res)
       IN /\ res # "ok" => HayFallo /\ m.ok
          /\ fallos' = IF res = "ok" THEN fallos ELSE fallos + 1
          /\ unacked' = [unacked EXCEPT ![w] = Tail(@)]
          /\ IF m.ok
             THEN /\ modelo' = [modelo EXCEPT ![w] = m.camp]
                  /\ modelo_cargado' = [modelo_cargado EXCEPT ![w] = TRUE]
                  /\ modelosConfirmados' = [modelosConfirmados EXCEPT ![w] = @ + 1]
                  /\ UNCHANGED cola_modelo
                  /\ IF TerminaEspera(m.ok)
                     THEN /\ estado' = [estado EXCEPT ![w] = sigue]
                          /\ consumidor' = [consumidor EXCEPT
                                ![w] = IF sigue = "STEADY_STATE" THEN "escenarios"
                                       ELSE "closed"]
                          /\ publicador' = [publicador EXCEPT
                                ![w] = IF sigue = "STEADY_STATE" THEN @ ELSE "closed"]
                     ELSE UNCHANGED <<estado, consumidor, publicador>>
             ELSE /\ cola_modelo' = BasicNack(cola_modelo, <<m>>, RequeueModelo)
                  /\ UNCHANGED <<modelo, modelo_cargado, modelosConfirmados,
                                 consumidor, estado, publicador>>
          /\ rechazados' = IF m.ok THEN rechazados
                           ELSE rechazados \cup {[cola |-> "modelo", msg |-> m]}
    /\ UNCHANGED <<escenarios_procesados, resultados_publicados>>
    /\ UNCHANGED <<cola_escenarios, cola_resultados>>
    /\ UNCHANGED <<confirmados, resultadosEnviados, vencidos>>
    /\ UNCHANGED varsProd
    /\ UNCHANGED varsAparte
    /\ UNCHANGED sueltas

\* KeyboardInterrupt while cargar_modelo_desde_cola waits: stop_consuming and
\* consumidor_modelo.cerrar(), the broker requeues what was not acknowledged;
\* then iniciar_consumo, whose first check raises, and the finally of ejecutar
InterrumpirEspera(w) ==
    /\ estado[w] = "AWAITING_MODEL"
    /\ HayFallo
    /\ fallos' = fallos + 1
    /\ cola_modelo' = Requeue(cola_modelo, unacked[w])
    /\ unacked' = [unacked EXCEPT ![w] = << >>]
    /\ consumidor' = [consumidor EXCEPT ![w] = "closed"]
    /\ estado' = [estado EXCEPT
                    ![w] = IniciarConsumo(modelo_cargado[w], publicador[w], "ok")]
    /\ publicador' = [publicador EXCEPT ![w] = "closed"]
    /\ UNCHANGED <<modelo, modelo_cargado, escenarios_procesados,
                   resultados_publicados>>
    /\ UNCHANGED <<cola_escenarios, cola_resultados>>
    /\ UNCHANGED varsProd
    /\ UNCHANGED varsObs
    /\ UNCHANGED varsAparte
    /\ UNCHANGED sueltas

\* the broker delivers the head of cola_escenarios to a worker consuming it,
\* within the prefetch limit
EntregarEscenario(w) ==
    /\ estado[w] = "STEADY_STATE"
    /\ consumidor[w] = "escenarios"
    /\ Len(unacked[w]) < PrefetchCount
    /\ cola_escenarios # << >>
    /\ unacked' = [unacked EXCEPT ![w] = Append(@, Head(cola_escenarios))]
    /\ cola_escenarios' = TrasEntrega(cola_escenarios)
    /\ UNCHANGED <<cola_modelo, cola_resultados, fallos>>
    /\ UNCHANGED varsProd
    /\ UNCHANGED varsCons
    /\ UNCHANGED varsObs
    /\ UNCHANGED varsAparte
    /\ UNCHANGED sueltas

\* mutant: basic_nack(requeue=False) in the except clause of callback_escenario
RequeueEscenarioFalse == FALSE

\* requeue of the basic_nack in the except clause of callback_escenario
RequeueEscenario == TRUE

\* How callback_escenario ends for message m with the publisher in state pub,
\* res being what the environment does to this call:
\*   "json"         json.loads raises
\*   "eval"         procesar_escenario raises (it always does for a message of malos)
\*   "ok"           publicar_resultado returns at the first attempt
\*   "reintento_ok" it raises a connection error, Publicador() and the retry work
\*   "reconexion"   it raises a connection error and Publicador() raises
\*   "reintento"    it raises a connection error, Publicador() works, the retry raises
\*   "publicar"     it raises an error the inner except does not catch; a closed
\*                  channel (a lost connection never replaced) always does
\*   "interrupcion" KeyboardInterrupt after publicar_resultado returned
FinCallback(m, pub, res) ==
    CASE ~m.ok -> "json"
      [] res = "eval" \/ m \in malos -> "eval"
      [] pub # "open" -> "publicar"
      [] OTHER -> res

\* mutant: the retry publishes although the first attempt had reached the queue
PublicaTambienSiFalla(fin) ==
    fin \in {"ok", "reintento_ok", "interrupcion", "reintento", "publicar"}

\* mutant: publicar_resultado called only on the reconnection path
PublicaSoloTrasReconectar(fin) == fin = "reintento_ok"

\* mutant: the publication retried in a loop, a third attempt after the second
IntentosConTercerIntento(fin) ==
    CASE fin \in {"json", "eval"} -> 0
      [] fin \in {"reintento_ok", "reintento"} -> 3
      [] OTHER -> 1

\* calls of publicar_resultado in one call of callback_escenario: the one in
\* the inner try and, after a connection error, the one in its except clause
IntentosPublicar(fin) ==
    CASE fin \in {"json", "eval"} -> 0
      [] fin \in {"reintento_ok", "reintento"} -> 2
      [] OTHER -> 1

\* calls of Publicador() in one call of callback_escenario
Reconexiones(fin) ==
    IF fin \in {"reintento_ok", "reconexion", "reintento"} THEN 1 ELSE 0

\* a Resultado reaches cola_resultados
Publica(fin) == fin \in {"ok", "reintento_ok", "interrupcion"}

\* mutant: basic_ack placed before the publication block
ConfirmaAntesDePublicar(fin) ==
    fin \in {"ok", "reintento_ok", "reconexion", "reintento", "publicar"}

\* basic_ack is reached
Confirma(fin) == fin \in {"ok", "reintento_ok"}

\* the except clause is reached: basic_nack
Rechaza(fin) == fin \in {"json", "eval", "reconexion", "reintento", "publicar"}

\* self.publicador after the call
PublicadorTras(pub, fin) ==
    CASE fin \in {"reintento_ok", "reintento"} -> "open"
      [] fin \in {"reconexion", "interrupcion"} -> "closed"
      [] OTHER -> pub

\* callback_escenario; after a KeyboardInterrupt also the except clause of
\* iniciar_consumo, consumidor_escenarios.cerrar() and the finally of ejecutar
CallbackEscenario(w, res) ==
    /\ estado[w] = "STEADY_STATE"
    /\ unacked[w] # << >>
    /\ LET m == Head(unacked[w])
           fin == FinCallback(m, publicador[w], res)
           r == Resultado(w, m, modelo[w])
       IN /\ res # "ok" => HayFallo /\ m.ok /\ m \notin malos
          /\ res \notin {"ok", "eval"} => publicador[w] = "open"
          /\ fallos' = IF res = "ok" THEN fallos ELSE fallos + 1
          /\ unacked' = [unacked EXCEPT ![w] = Tail(@)]
          /\ cola_resultados' = IF Publica(fin) THEN BasicPublish(cola_resultados, r)
                                ELSE cola_resultados
          /\ resultadosEnviados' = IF Publica(fin) THEN Append(resultadosEnviados, r)
                                   ELSE resultadosEnviados
          /\ cola_escenarios' =
                CASE Confirma(fin) -> cola_escenarios
                  [] Rechaza(fin) -> BasicNack(cola_escenarios, <<m>>, RequeueEscenario)
                  [] OTHER -> Requeue(cola_escenarios, <<m>>)
          /\ escenarios_procesados' =
                [escenarios_procesados EXCEPT ![w] = IF Confirma(fin) THEN @ + 1 ELSE @]
          /\ resultados_publicados' =
                [resultados_publicados EXCEPT ![w] = IF Confirma(fin) THEN @ + 1 ELSE @]
          /\ confirmados' = IF Confirma(fin)
                            THEN confirmados \cup {[msg |-> m, por |-> w]}
                            ELSE confirmados
          /\ rechazados' = IF Rechaza(fin) /\ ~Confirma(fin)
                           THEN rechazados \cup {[cola |-> "escenarios", msg |-> m]}
                           ELSE rechazados
          /\ publicador' = [publicador EXCEPT ![w] = PublicadorTras(@, fin)]
          /\ estado' = [estado EXCEPT
                          ![w] = IF fin = "interrupcion" THEN "TERMINADO" ELSE @]
          /\ consumidor' = [consumidor EXCEPT
                              ![w] = IF fin = "interrupcion" THEN "closed" ELSE @]
    /\ UNCHANGED <<modelo, modelo_cargado, modelosConfirmados, cola_modelo,
                   vencidos>>
    /\ UNCHANGED varsProd
    /\ UNCHANGED varsAparte
    /\ UNCHANGED sueltas

\* KeyboardInterrupt while start_consuming waits in iniciar_consumo (also with a
\* delivery received whose callback has not begun): stop_consuming,
\* consumidor_escenarios.cerrar(), then the finally of ejecutar
InterrumpirConsumo(w) ==
    /\ estado[w] = "STEADY_STATE"
    /\ HayFallo
    /\ fallos' = fallos + 1
    /\ cola_escenarios' = Requeue(cola_escenarios, unacked[w])
    /\ unacked' = [unacked EXCEPT ![w] = << >>]
    /\ consumidor' = [consumidor EXCEPT ![w] = "closed"]
    /\ publicador' = [publicador EXCEPT ![w] = "closed"]
    /\ estado' = [estado EXCEPT ![w] = "TERMINADO"]
    /\ UNCHANGED <<modelo, modelo_cargado, escenarios_procesados,
                   resultados_publicados>>
    /\ UNCHANGED <<cola_modelo, cola_resultados>>
    /\ UNCHANGED varsProd
    /\ UNCHANGED varsObs
    /\ UNCHANGED varsAparte
    /\ UNCHANGED sueltas

\* The connections to the broker a worker process holds open: every
\* ManejadorMensajes (the Publicador of inicializar_publicador, the Consumidor
\* of cargar_modelo_desde_cola, the Consumidor of iniciar_consumo) opens a
\* BlockingConnection of its own in _conectar and keeps it until cerrar
ConexionesAbiertas(w) ==
    (IF publicador[w] = "open" THEN 1 ELSE 0)
    + (IF consumidor[w] \in {"modelo", "escenarios"} THEN 1 ELSE 0)

\* The connections the Productor holds open: the one of its Publicador
ConexionesAbiertasProd == IF publicadorProd = "open" THEN 1 ELSE 0

\* ------------------------------------------------------------- environment
\* a body that does not parse reaches cola_modelo (the queue is durable and
\* open to any publisher of the broker)
LlegaModeloCorrupto ==
    /\ HayFallo
    /\ fallos' = fallos + 1
    /\ cola_modelo' = BasicPublish(cola_modelo, MensajeCorrupto)
    /\ UNCHANGED <<cola_escenarios, cola_resultados, unacked>>
    /\ UNCHANGED varsProd
    /\ UNCHANGED varsCons
    /\ UNCHANGED varsObs
    /\ UNCHANGED varsAparte
    /\ UNCHANGED sueltas

\* a body that does not parse reaches cola_escenarios
LlegaEscenarioCorrupto ==
    /\ HayFallo
    /\ fallos' = fallos + 1
    /\ cola_escenarios' = BasicPublish(cola_escenarios, MensajeCorrupto)
    /\ UNCHANGED <<cola_modelo, cola_resultados, unacked>>
    /\ UNCHANGED varsProd
    /\ UNCHANGED varsCons
    /\ UNCHANGED varsObs
    /\ UNCHANGED varsAparte
    /\ UNCHANGED sueltas

\* MODEL_TIMEOUT passes with no publication to cola_modelo: the messages that
\* were ready in it have outlived their TTL
VenceTTL ==
    /\ HayFallo
    /\ cola_modelo # << >>
    /\ fallos' = fallos + 1
    /\ cola_modelo' = TrasVencer(cola_modelo)
    /\ vencidos' = vencidos \cup {m.camp : m \in {x \in Mensajes(cola_modelo) : x.ok}}
    /\ UNCHANGED <<confirmados, modelosConfirmados, rechazados, resultadosEnviados>>
    /\ UNCHANGED <<cola_escenarios, cola_resultados, unacked>>
    /\ UNCHANGED varsProd
    /\ UNCHANGED varsCons
    /\ UNCHANGED varsAparte
    /\ UNCHANGED sueltas

\* ------------------------------------------------------------ specifications
\* what the environment may do to one call
ResProd == {"ok", "error"}
ResPublicar == {"ok", "error", "malo", "distribucion"}
ResEjecutar == {"ok", "cargar", "conectar", "declarar", "purga", "publicar",
                "distribucion"}
ResArrancar == {"ok", "publicador", "consumidor", "declarar"}
ResCallback == {"ok", "eval", "reintento_ok", "reconexion", "reintento",
                "publicar", "interrupcion"}

PasoProductor ==
    \/ \E n \in ValoresNumEscenarios, res \in ResEjecutar : Ejecutar(n, res)
    \/ \E res \in ResPublicar : PublicarEscenario(res)

PasoConsumidor(w) ==
    \/ \E res \in ResArrancar : Arrancar(w, res)
    \/ EntregarModelo(w)
    \/ \E res \in ResProd : CallbackModelo(w, res)
    \/ EntregarEscenario(w)
    \/ \E res \in ResCallback : CallbackEscenario(w, res)

Next ==
    \/ PasoProductor
    \/ \E w \in Consumidores : PasoConsumidor(w)
    \/ \E w \in Consumidores : InterrumpirEspera(w)
    \/ \E w \in Consumidores : InterrumpirConsumo(w)
    \/ LlegaModeloCorrupto
    \/ LlegaEscenarioCorrupto
    \/ VenceTTL

Spec == Init /\ [][Next]_vars

\* The failure-free runs: nothing raises, nobody is interrupted, no foreign
\* message arrives. A Productor that is in its loop goes on, the broker
\* delivers and a callback that began returns; whether and when producer.py
\* or consumer.py is started is up to the operator.
PasoBrokerYCallback(w) ==
    \/ EntregarModelo(w)
    \/ CallbackModelo(w, "ok")
    \/ EntregarEscenario(w)
    \/ CallbackEscenario(w, "ok")

NextSinFallos ==
    \/ \E n \in ValoresNumEscenarios : Ejecutar(n, "ok")
    \/ PublicarEscenario("ok")
    \/ \E w \in Consumidores : Arrancar(w, "ok")
    \/ \E w \in Consumidores : PasoBrokerYCallback(w)

SpecSinFallos ==
    /\ Init
    /\ [][NextSinFallos]_vars
    /\ WF_vars(PublicarEscenario("ok"))
    /\ \A w \in Consumidores : WF_vars(PasoBrokerYCallback(w))

\* ------------------------------------------------- model_parser by itself
\* what the engine by itself never touches
varsResto == <<varsProd, varsObs, estado, modelo, modelo_cargado, publicador,
               consumidor, cola_modelo, cola_escenarios, cola_resultados,
               unacked, sueltas, fallos, varsDash, varsRec>>
contadores == <<escenarios_procesados, resultados_publicados>>

\* the worker whose callback_escenario evaluates
Evaluador == "consumer_1"

InitModelo ==
    /\ Reposo
    /\ DashVacio
    /\ RecVacio
    /\ archivo \in Archivos \cup {Nada}
    /\ objeto = Nada
    /\ mensaje = Nada
    /\ valores = Nada
    /\ resultado = Nada

Parsear ==
    /\ archivo.tipo = "archivo"
    /\ objeto = Nada /\ mensaje = Nada /\ resultado = Nada
    /\ LET r == ParsearArchivo(archivo)
       IN  IF r.tipo = "modelo"
           THEN objeto' = r /\ resultado' = resultado
           ELSE objeto' = objeto /\ resultado' = r
    /\ UNCHANGED <<archivo, mensaje, valores>>
    /\ UNCHANGED varsResto
    /\ UNCHANGED contadores

\* the Productor: publicar_modelo sends model.serializar()
PasoSerializar ==
    /\ objeto.tipo = "modelo"
    /\ mensaje = Nada /\ valores = Nada /\ resultado = Nada
    /\ mensaje' = Serializar(objeto)
    /\ objeto' = Nada
    /\ UNCHANGED <<archivo, valores, resultado>>
    /\ UNCHANGED varsResto
    /\ UNCHANGED contadores

\* a model message of any origin is in cola_modelo
RecibirMensaje ==
    /\ archivo = Nada
    /\ mensaje = Nada
    /\ mensaje' \in MensajesModelo
    /\ UNCHANGED <<archivo, objeto, valores, resultado>>
    /\ UNCHANGED varsResto
    /\ UNCHANGED contadores

\* the worker: callback_modelo
PasoDeserializar ==
    /\ mensaje.tipo = "mensaje"
    /\ objeto = Nada /\ resultado = Nada
    /\ objeto' = Deserializar(mensaje)
    /\ UNCHANGED <<archivo, mensaje, valores, resultado>>
    /\ UNCHANGED varsResto
    /\ UNCHANGED contadores

PasoGenerar ==
    /\ objeto.tipo = "modelo"
    /\ valores = Nada /\ resultado = Nada
    /\ LET r == GenerarEscenario(objeto)
       IN  IF r.tipo = "valores"
           THEN valores' = r /\ resultado' = resultado
           ELSE valores' = valores /\ resultado' = r
    /\ UNCHANGED <<archivo, objeto, mensaje>>
    /\ UNCHANGED varsResto
    /\ UNCHANGED contadores

\* a scenario message of any origin reaches the worker
LlegaValores ==
    /\ objeto.tipo = "modelo"
    /\ mensaje.tipo = "mensaje"
    /\ valores = Nada /\ resultado = Nada
    /\ valores' \in ValoresPosibles
    /\ UNCHANGED <<archivo, objeto, mensaje, resultado>>
    /\ UNCHANGED varsResto
    /\ UNCHANGED contadores

\* procesar_escenario inside callback_escenario, the publication going
\* through: the counters are reached when Modelo.ejecutar has returned
PasoEjecutar ==
    /\ objeto.tipo = "modelo"
    /\ valores.tipo = "valores"
    /\ resultado = Nada
    /\ resultado' = EjecutarModelo(objeto, valores)
    /\ valores' = TrasEjecutar(valores)
    /\ escenarios_procesados' =
          [escenarios_procesados EXCEPT
              ![Evaluador] = IF resultado'.tipo = "valor" THEN @ + 1 ELSE @]
    /\ resultados_publicados' =
          [resultados_publicados EXCEPT
              ![Evaluador] = IF resultado'.tipo = "valor" THEN @ + 1 ELSE @]
    /\ UNCHANGED <<archivo, objeto, mensaje>>
    /\ UNCHANGED varsResto

NextModelo ==
    \/ Parsear
    \/ PasoSerializar
    \/ RecibirMensaje
    \/ PasoDeserializar
    \/ PasoGenerar
    \/ LlegaValores
    \/ PasoEjecutar

SpecModelo == InitModelo /\ [][NextModelo]_vars

\* ------------------------------------------------------------------ dashboard
\* The dashboard by itself: results arrive in cola_resultados, the thread of
\* ResultadoReceiver consumes them and the window of Dashboard shows them.
MaxResultados == 3

\* maxlen of the deque of GraficoResultados (1000 in dashboard.py), scaled down
MaxLenGrafico == 2

\* basic_qos(prefetch_count=10) of _consumir_resultados
PrefetchDash == 10

\* the bodies a message of cola_resultados may have: a Resultado of a worker,
\* an object without consumer_id, JSON that is no object, text that is no JSON
CuerposResultado ==
    [forma : {"dict"}, consumer_id : Consumidores \cup {"ausente"}]
    \cup [forma : {"lista", "texto"}, consumer_id : {"ausente"}]

\* messages that ever reached cola_resultados
PublicadosDash == Len(cola_resultados) + Len(unackedDash) + Len(historialDash)

\* json.loads(body) returns
EsJson(c) == c.forma # "texto"

\* resultado.get('consumer_id', 'unknown'); a list has no get
TieneGet(c) == c.forma = "dict"
IdDe(c) == IF c.consumer_id = "ausente" THEN "unknown" ELSE c.consumer_id

\* how callback_resultado ends: basic_ack, or the except clause and basic_nack
FinResultado(c) == IF EsJson(c) /\ TieneGet(c) THEN "ack" ELSE "nack"

\* mutant: basic_nack(requeue=True) in the except clause of callback_resultado
RequeueResultadoTrue == TRUE

\* requeue of the basic_nack in the except clause of callback_resultado
RequeueResultado == FALSE

\* deque(maxlen=...).append: at full length the oldest entry leaves
AppendDeque(d, x) ==
    IF Len(d) < MaxLenGrafico THEN Append(d, x) ELSE Append(Tail(d), x)

\* a worker's publicar_resultado, or anyone's basic_publish to cola_resultados
LlegaResultado(c) ==
    /\ PublicadosDash < MaxResultados
    /\ cola_resultados' =
          BasicPublish(cola_resultados, [tag |-> PublicadosDash + 1, cuerpo |-> c])
    /\ UNCHANGED varsDash
    /\ UNCHANGED <<varsProd, varsCons, varsObs, varsMotor, varsRec>>
    /\ UNCHANGED <<cola_modelo, cola_escenarios, unacked, sueltas, fallos>>

\* the broker delivers the head of cola_resultados, within the prefetch limit
EntregarResultado ==
    /\ cola_resultados # << >>
    /\ Len(unackedDash) < PrefetchDash
    /\ unackedDash' = Append(unackedDash, Head(cola_resultados))
    /\ cola_resultados' = Tail(cola_resultados)
    /\ UNCHANGED <<resultadosDash, estadisticasDash, senalesDash, panelDash,
                   graficoDash, historialDash>>
    /\ UNCHANGED <<varsProd, varsCons, varsObs, varsMotor, varsRec>>
    /\ UNCHANGED <<cola_modelo, cola_escenarios, unacked, sueltas, fallos>>

\* callback_resultado
CallbackResultado ==
    /\ unackedDash # << >>
    /\ LET m == Head(unackedDash)
           c == m.cuerpo
           fin == FinResultado(c)
       IN /\ resultadosDash' = IF EsJson(c) THEN Append(resultadosDash, c)
                               ELSE resultadosDash
          /\ estadisticasDash' =
                IF fin = "ack"
                THEN [estadisticasDash EXCEPT
                        ![IdDe(c)] = [escenarios_procesados |-> @.escenarios_procesados + 1,
                                      resultados_publicados |-> @.resultados_publicados + 1]]
                ELSE estadisticasDash
          /\ senalesDash' = IF fin = "ack" THEN Append(senalesDash, c) ELSE senalesDash
          /\ cola_resultados' = IF fin = "ack" THEN cola_resultados
                                ELSE BasicNack(cola_resultados, <<m>>, RequeueResultado)
          /\ historialDash' = Append(historialDash, [tag |-> m.tag, fin |-> fin])
          /\ unackedDash' = Tail(unackedDash)
    /\ UNCHANGED <<panelDash, graficoDash>>
    /\ UNCHANGED <<varsProd, varsCons, varsObs, varsMotor, varsRec>>
    /\ UNCHANGED <<cola_modelo, cola_escenarios, unacked, sueltas, fallos>>

\* Dashboard.on_resultado_recibido, the slot of resultado_recibido, with
\* GraficoResultados.agregar_resultado
OnResultadoRecibido ==
    /\ senalesDash # << >>
    /\ panelDash' = Append(panelDash, Head(senalesDash))
    /\ graficoDash' = AppendDeque(graficoDash, Head(senalesDash))
    /\ senalesDash' = Tail(senalesDash)
    /\ UNCHANGED <<unackedDash, resultadosDash, estadisticasDash, historialDash>>
    /\ UNCHANGED <<varsProd, varsCons, varsObs, varsMotor, varsRec>>
    /\ UNCHANGED <<cola_modelo, cola_escenarios, cola_resultados, unacked,
                   sueltas, fallos>>

NextDashboard ==
    \/ \E c \in CuerposResultado : LlegaResultado(c)
    \/ EntregarResultado
    \/ CallbackResultado
    \/ OnResultadoRecibido

SpecDashboard == Init /\ [][NextDashboard]_vars

\* ---------------------------------------------------------- ResultadoReceiver
\* iniciar and detener, called from the window's thread, and the thread that
\* runs _consumir_resultados. A connection is "consumiendo" after
\* basic_consume, "cancelado" after stop_consuming, "closed" after cerrar.
varsFuera == <<varsProd, varsCons, varsObs, varsMotor, varsDash, cola_modelo,
               cola_escenarios, cola_resultados, unacked, sueltas, fallos>>

\* channel.stop_consuming() on the Consumidor of self.consumidor, if any
TrasStopConsuming(con, c) ==
    IF c # 0 /\ con[c] = "consumiendo" THEN [con EXCEPT ![c] = "cancelado"]
    ELSE con

\* self.consumidor.cerrar(), if any
TrasCerrar(con, c) ==
    IF c # 0 /\ con[c] # "none" THEN [con EXCEPT ![c] = "closed"] ELSE con

\* ResultadoReceiver.iniciar
Iniciar ==
    /\ ~ejecutando => hilo < MaxHilos
    /\ IF ejecutando
       THEN UNCHANGED <<ejecutando, hilo, estadoHilo>>
       ELSE /\ ejecutando' = TRUE
            /\ hilo' = hilo + 1
            /\ estadoHilo' = [estadoHilo EXCEPT ![hilo + 1] = "inicio"]
    /\ UNCHANGED <<consumidorRec, conexionHilo>>
    /\ UNCHANGED varsFuera

\* ResultadoReceiver.detener
Detener ==
    /\ ejecutando' = FALSE
    /\ conexionHilo' = TrasStopConsuming(conexionHilo, consumidorRec)
    /\ UNCHANGED <<hilo, estadoHilo, consumidorRec>>
    /\ UNCHANGED varsFuera

\* _consumir_resultados up to its loop: Consumidor(COLA_RESULTADOS), basic_qos,
\* basic_consume; when the constructor raises, the except and the finally
HiloConecta(h, res) ==
    /\ estadoHilo[h] = "inicio"
    /\ IF res = "ok"
       THEN /\ consumidorRec' = h
            /\ conexionHilo' = [conexionHilo EXCEPT ![h] = "consumiendo"]
            /\ estadoHilo' = [estadoHilo EXCEPT ![h] = "bucle"]
       ELSE /\ consumidorRec' = consumidorRec
            /\ conexionHilo' = TrasCerrar(conexionHilo, consumidorRec)
            /\ estadoHilo' = [estadoHilo EXCEPT ![h] = "fin"]
    /\ UNCHANGED <<ejecutando, hilo>>
    /\ UNCHANGED varsFuera

\* while self.ejecutando: found false, then the finally: stop_consuming and
\* cerrar on self.consumidor
HiloSale(h) ==
    /\ estadoHilo[h] = "bucle"
    /\ ~ejecutando
    /\ conexionHilo' = TrasCerrar(conexionHilo, consumidorRec)
    /\ estadoHilo' = [estadoHilo EXCEPT ![h] = "fin"]
    /\ UNCHANGED <<ejecutando, hilo, consumidorRec>>
    /\ UNCHANGED varsFuera

\* while self.ejecutando: found true, into process_data_events(time_limit=1)
HiloEntra(h) ==
    /\ estadoHilo[h] = "bucle"
    /\ ejecutando
    /\ estadoHilo' = [estadoHilo EXCEPT ![h] = "eventos"]
    /\ UNCHANGED <<ejecutando, hilo, consumidorRec, conexionHilo>>
    /\ UNCHANGED varsFuera

\* process_data_events and sleep(0.1) return: back at the test of the loop
HiloVuelve(h) ==
    /\ estadoHilo[h] = "eventos"
    /\ estadoHilo' = [estadoHilo EXCEPT ![h] = "bucle"]
    /\ UNCHANGED <<ejecutando, hilo, consumidorRec, conexionHilo>>
    /\ UNCHANGED varsFuera

ResConectar == {"ok", "error"}

NextReceptor ==
    \/ Iniciar
    \/ Detener
    \/ \E h \in Hilos, res \in ResConectar : HiloConecta(h, res)
    \/ \E h \in Hilos : HiloEntra(h)
    \/ \E h \in Hilos : HiloVuelve(h)
    \/ \E h \in Hilos : HiloSale(h)

\* the thread is scheduled: it connects, and it comes back to the test of its
\* loop after process_data_events(time_limit=1) and sleep(0.1)
SpecReceptor ==
    /\ Init
    /\ [][NextReceptor]_vars
    /\ \A h \in Hilos : /\ WF_vars(HiloConecta(h, "ok"))
                        /\ WF_vars(HiloVuelve(h))
                        /\ WF_vars(HiloSale(h))

\* ------------------------------------------------------------------ claims
EsDe(r, m) == r.camp = m.camp /\ r.escenario_id = m.id

\* how many Resultados were published for scenario message m
NumResultados(m) ==
    Cardinality({k \in 1 .. Len(resultadosEnviados) : EsDe(resultadosEnviados[k], m)})

Confirmado(m) == \E c \in confirmados : c.msg = m

EnVuelo(m) == \E w \in Consumidores : m \in Mensajes(unacked[w])

\* a worker published a Resultado for m and never acknowledged m: its
\* processing was interrupted between the publication and the basic_ack
Interrumpido(m) ==
    \E k \in 1 .. Len(resultadosEnviados) :
        /\ EsDe(resultadosEnviados[k], m)
        /\ [msg |-> m, por |-> resultadosEnviados[k].consumer_id] \notin confirmados

\* C1: a run of the Productor that ended without failure published the
\* scenario ids 1, 2, ..., num_escenarios in that order, each once (none for
\* num_escenarios <= 0).
C1_IdsEnOrden ==
    pc = "DONE" =>
        /\ Len(idsPublicados) = IF num_escenarios > 0 THEN num_escenarios ELSE 0
        /\ \A k \in 1 .. Len(idsPublicados) : idsPublicados[k] = k
        /\ \A k \in 1 .. Len(idsPublicados) :
              MensajeEscenario(corrida, k) \in enviados

C1_Witness ==
    /\ pc = "DONE"
    /\ num_escenarios = MaxEscenarios
    /\ idsPublicados = [k \in 1 .. MaxEscenarios |-> k]

\* C2: a scenario delivery is acknowledged by a worker only after that worker
\* published a Resultado for it, and no published scenario leaves
\* cola_escenarios (ready or delivered) without a Resultado for it.
C2_AckTrasResultado ==
    /\ \A c \in confirmados :
          \E k \in 1 .. Len(resultadosEnviados) :
              /\ EsDe(resultadosEnviados[k], c.msg)
              /\ resultadosEnviados[k].consumer_id = c.por
    /\ \A m \in enviados :
          \/ m \in Mensajes(cola_escenarios)
          \/ EnVuelo(m)
          \/ NumResultados(m) >= 1

C2_Witness ==
    \E c \in confirmados : c.msg \notin Mensajes(cola_escenarios) /\ ~EnVuelo(c.msg)

\* C3: a call of callback_escenario in which the evaluation or the publication
\* of the Resultado fails negatively acknowledges the delivery with requeue:
\* the scenario is back in cola_escenarios, it is not acknowledged, and the
\* worker stays in STEADY_STATE, consuming, free for the next delivery.
C3_FalloReencola ==
    [][\A w \in Consumidores : \A res \in ResCallback :
          (/\ CallbackEscenario(w, res)
           /\ Head(unacked[w]).ok
           /\ Rechaza(FinCallback(Head(unacked[w]), publicador[w], res)))
          => /\ Head(unacked[w]) \in Mensajes(cola_escenarios')
             /\ confirmados' = confirmados
             /\ resultadosEnviados' = resultadosEnviados
             /\ estado'[w] = "STEADY_STATE"
             /\ consumidor'[w] = "escenarios"
             /\ unacked'[w] = << >>]_vars

C3_Witness ==
    \E w \in Consumidores : \E r \in rechazados :
        /\ r.cola = "escenarios"
        /\ r.msg.ok
        /\ r.msg \in Mensajes(cola_escenarios)
        /\ estado[w] = "STEADY_STATE"
        /\ fallos = 1

Completo ==
    /\ pc = "DONE"
    /\ cola_escenarios = << >>
    /\ \A w \in Consumidores : unacked[w] = << >> \/ estado[w] # "STEADY_STATE"
    /\ \A m \in enviados : Confirmado(m) /\ NumResultados(m) = 1
    /\ Len(resultadosEnviados) = Cardinality(enviados)
    /\ \A i \in 1 .. num_escenarios :
          NumResultados(MensajeEscenario(corrida, i)) = 1

\* C5: in a failure-free run, once the Productor has published its scenarios
\* and a worker holds the model, eventually every scenario is acknowledged,
\* cola_escenarios is empty and exactly one Resultado per scenario id has been
\* published.
C5_TodoProcesado ==
    (pc = "DONE" /\ \E w \in Consumidores : estado[w] = "STEADY_STATE") ~> Completo

C5_Witness ==
    /\ Completo
    /\ num_escenarios = MaxEscenarios
    /\ \E w \in Consumidores : estado[w] = "STEADY_STATE"

\* the model of the current run is published
ModeloPublicado == pc \in {"GENERATE_AND_PUBLISH_SCENARIOS", "DONE"}

\* C6: with one model published and all the workers waiting in
\* AWAITING_MODEL, every one of them eventually reaches STEADY_STATE.
C6_TodosRecibenModelo ==
    (/\ corrida = 1
     /\ ModeloPublicado
     /\ \A w \in Consumidores : estado[w] = "AWAITING_MODEL")
    ~> (\A w \in Consumidores : estado[w] = "STEADY_STATE")

\* one worker acknowledged the only model and consumes scenarios; the other
\* one still waits, with cola_modelo empty and nothing to be redelivered
C6_Witness ==
    /\ corrida = 1
    /\ pc = "DONE"
    /\ cola_modelo = << >>
    /\ \E w, v \in Consumidores :
          /\ estado[w] = "STEADY_STATE"
          /\ modelosConfirmados[w] = 1
          /\ estado[v] = "AWAITING_MODEL"
          /\ unacked[v] = << >>

\* C7: a worker acknowledges at most one model message; once it has left
\* AWAITING_MODEL it never returns to it, never consumes cola_modelo again and
\* keeps the model it holds.
C7_UnSoloModelo ==
    [][\A w \in Consumidores :
          /\ modelosConfirmados'[w] <= 1
          /\ estado[w] \notin {"INIT", "AWAITING_MODEL"}
             => /\ estado'[w] # "AWAITING_MODEL"
                /\ consumidor'[w] # "modelo"
                /\ modelo'[w] = modelo[w]
                /\ modelo_cargado'[w] = modelo_cargado[w]
                /\ modelosConfirmados'[w] = modelosConfirmados[w]
          /\ (estado[w] = "STEADY_STATE" /\ estado'[w] # "STEADY_STATE")
             => estado'[w] \in {"TERMINADO", "ERROR"}]_vars

\* a worker in STEADY_STATE with the model of the first campaign while the
\* model of the second one is ready in cola_modelo
C7_Witness ==
    \E w \in Consumidores :
        /\ estado[w] = "STEADY_STATE"
        /\ modelo[w] = 1
        /\ modelosConfirmados[w] = 1
        /\ cola_modelo = <<MensajeModelo(2)>>
        /\ \A v \in Consumidores : estado[v] \notin {"INIT", "AWAITING_MODEL"}

\* C8: callback_modelo on a body that does not parse negatively acknowledges
\* it with requeue, leaves modelo unset and modelo_cargado false, and the
\* worker keeps waiting in AWAITING_MODEL, consuming cola_modelo.
C8_ModeloCorruptoReencola ==
    [][\A w \in Consumidores : \A res \in ResProd :
          (CallbackModelo(w, res) /\ ~Head(unacked[w]).ok)
          => /\ Head(unacked[w]) \in Mensajes(cola_modelo')
             /\ modelo'[w] = 0
             /\ ~modelo_cargado'[w]
             /\ modelosConfirmados'[w] = 0
             /\ estado'[w] = "AWAITING_MODEL"
             /\ consumidor'[w] = "modelo"]_vars

C8_Witness ==
    \E w \in Consumidores :
        /\ [cola |-> "modelo", msg |-> MensajeCorrupto] \in rechazados
        /\ MensajeCorrupto \in Mensajes(cola_modelo)
        /\ estado[w] = "AWAITING_MODEL"
        /\ ~modelo_cargado[w]

\* C9: callback_escenario on a body that does not parse negatively
\* acknowledges it without requeue: the message is dropped from
\* cola_escenarios.
C9_EscenarioCorruptoDescartado ==
    [][\A w \in Consumidores : \A res \in ResCallback :
          (CallbackEscenario(w, res) /\ ~Head(unacked[w]).ok)
          => Head(unacked[w]) \notin Mensajes(cola_escenarios')]_vars

\* the body that does not parse was negatively acknowledged and is ready in
\* cola_escenarios again
C9_Witness ==
    /\ [cola |-> "escenarios", msg |-> MensajeCorrupto] \in rechazados
    /\ MensajeCorrupto \in Mensajes(cola_escenarios)

Tenedores(m) == {w \in Consumidores : m \in Mensajes(unacked[w])}

\* where scenario message m is: how many times ready in cola_escenarios, at
\* how many workers in flight, by how many workers acknowledged
Lugares(m) ==
    Cardinality({k \in 1 .. Len(cola_escenarios) : cola_escenarios[k] = m})
    + Cardinality(Tenedores(m))
    + Cardinality({c \in confirmados : c.msg = m})

\* C11: no scenario is in flight at two workers at the same time; with no
\* failure, every published scenario is in exactly one place (ready, in flight
\* at one worker, or acknowledged by one worker) and at most one Resultado
\* has been published for it, so no two workers published one for the same
\* scenario id of a campaign.
C11_UnSoloConsumidor ==
    /\ \A m \in enviados : Cardinality(Tenedores(m)) <= 1
    /\ fallos = 0 =>
          \A m \in enviados :
              /\ Lugares(m) = 1
              /\ NumResultados(m) <= 1
              /\ Confirmado(m) => NumResultados(m) = 1

\* both workers consume cola_escenarios at the same time and each one holds a
\* scenario of its own, nothing having failed
C11_Witness ==
    /\ fallos = 0
    /\ \A w \in Consumidores : estado[w] = "STEADY_STATE" /\ Len(unacked[w]) = 1
    /\ \E w, v \in Consumidores : Head(unacked[w]) # Head(unacked[v])

\* C12: a worker holds at most one unacknowledged delivery, and while it
\* holds one the broker delivers it no further scenario, however many are
\* ready.
C12_UnoEnVuelo ==
    \A w \in Consumidores :
        /\ Len(unacked[w]) <= 1
        /\ unacked[w] # << >> => ~ENABLED EntregarEscenario(w)

\* a worker is processing a scenario while another one is ready and no other
\* worker consumes the queue
C12_Witness ==
    \E w \in Consumidores :
        /\ estado[w] = "STEADY_STATE"
        /\ Len(unacked[w]) = 1
        /\ Head(unacked[w]) \in enviados
        /\ \E m \in enviados : m \in Mensajes(cola_escenarios)
        /\ \A v \in Consumidores \ {w} : estado[v] # "STEADY_STATE"

C14_ReintentoProductor ==
    [][(\/ \E n \in ValoresNumEscenarios : Ejecutar(n, "publicar")
        \/ PublicarEscenario("error"))
       => conexionesProd' = 2]_vars

\* a run that published its model and ended in ERROR at a scenario, having
\* connected once
C14_Witness ==
    /\ pc = "ERROR"
    /\ modeloEnviado
    /\ escenarios_publicados < num_escenarios
    /\ conexionesProd = 1
    /\ publicadorProd = "closed"

\* C15: a run of the Productor that fails in cargar_modelo or in
\* inicializar_publicador ends in ERROR with cola_modelo as it was (not
\* purged), no model and no scenario published and no publicador; when
\* cargar_modelo failed no connection to the broker was attempted.
C15_FalloFatal ==
    [][\A n \in ValoresNumEscenarios : \A res \in {"cargar", "conectar"} :
          Ejecutar(n, res) =>
              /\ pc' = "ERROR"
              /\ cola_modelo' = cola_modelo
              /\ cola_escenarios' = cola_escenarios
              /\ enviados' = enviados
              /\ idsPublicados' = << >>
              /\ ~modeloEnviado'
              /\ publicadorProd' = "none"
              /\ res = "cargar" => conexionesProd' = 0
              /\ res = "conectar" => conexionesProd' = 1]_vars

\* the second run failed before it connected, and the model of the first one
\* is still ready in cola_modelo
C15_Witness ==
    /\ corrida = 2
    /\ pc = "ERROR"
    /\ conexionesProd = 0
    /\ ~modeloEnviado
    /\ publicadorProd = "none"
    /\ cola_modelo = <<MensajeModelo(1)>>

\* C16: a scenario is published only by a run whose model is already
\* published; after every step, also one that fails, the ids the run has
\* published are 1 .. k in order for some k <= num_escenarios, each of them a
\* scenario message of this campaign, and the step that publishes the model
\* puts it in cola_modelo.
C16_ModeloAntes ==
    [][/\ enviados' # enviados => modeloEnviado /\ modeloEnviado'
       /\ idsPublicados' = [k \in 1 .. escenarios_publicados' |-> k]
       /\ escenarios_publicados' <= num_escenarios'
       /\ idsPublicados' # << >> => modeloEnviado'
       /\ \A k \in 1 .. Len(idsPublicados') :
             MensajeEscenario(corrida', k) \in enviados'
       /\ (modeloEnviado' /\ corrida' # corrida)
          => MensajeModelo(corrida') \in Mensajes(cola_modelo')]_vars

\* a run that failed at its second scenario: the model and scenario 1 are
\* published
C16_Witness ==
    /\ pc = "ERROR"
    /\ modeloEnviado
    /\ num_escenarios = 2
    /\ idsPublicados = <<1>>
    /\ MensajeEscenario(corrida, 1) \in enviados

\* C17: every process, the Productor and each worker, has at most one
\* connection to the broker open.
C17_UnaConexion ==
    /\ ConexionesAbiertasProd <= 1
    /\ \A w \in Consumidores : ConexionesAbiertas(w) <= 1

\* a worker that consumes scenarios over one connection and holds a second
\* one, its publicador's, open
C17_Witness ==
    \E w \in Consumidores :
        /\ estado[w] = "STEADY_STATE"
        /\ consumidor[w] = "escenarios"
        /\ publicador[w] = "open"
        /\ ConexionesAbiertas(w) = 2

\* C18: a KeyboardInterrupt that reaches a worker in STEADY_STATE, waiting
\* for a delivery or inside callback_escenario, ends the worker with its
\* consumer connection and its publisher connection closed; the delivery it
\* held is not acknowledged and is ready in cola_escenarios again.
C18_InterrupcionLimpia ==
    [][\A w \in Consumidores :
          (InterrumpirConsumo(w) \/ CallbackEscenario(w, "interrupcion"))
          => /\ estado'[w] = "TERMINADO"
             /\ consumidor'[w] = "closed"
             /\ publicador'[w] = "closed"
             /\ unacked'[w] = << >>
             /\ confirmados' = confirmados
             /\ \A m \in Mensajes(unacked[w]) : m \in Mensajes(cola_escenarios')]_vars

\* a worker interrupted inside the processing of a scenario, after it had
\* published the Resultado: it has terminated, the scenario is ready again
C18_Witness ==
    \E w \in Consumidores : \E m \in enviados :
        /\ estado[w] = "TERMINADO"
        /\ consumidor[w] = "closed"
        /\ publicador[w] = "closed"
        /\ m \in Mensajes(cola_escenarios)
        /\ ~Confirmado(m)
        /\ \E k \in 1 .. Len(resultadosEnviados) :
              EsDe(resultadosEnviados[k], m) /\ resultadosEnviados[k].consumer_id = w

\* C19: the model of a campaign that stayed ready in cola_modelo until its
\* TTL had passed is not deliverable: it is not ready, no worker holds it,
\* no worker has loaded it, and a worker that waits for a model is not
\* delivered one while cola_modelo holds nothing else.
C19_ModeloVencido ==
    \A c \in vencidos :
        /\ MensajeModelo(c) \notin Mensajes(cola_modelo)
        /\ \A w \in Consumidores :
              /\ MensajeModelo(c) \notin Mensajes(unacked[w])
              /\ modelo[w] # c
              /\ cola_modelo = << >> => ~ENABLED EntregarModelo(w)

\* the model of the first campaign expired unconsumed; a worker waits in
\* cargar_modelo_desde_cola and nothing is there for it
C19_Witness ==
    /\ vencidos = {1}
    /\ modeloEnviado
    /\ cola_modelo = << >>
    /\ \E w \in Consumidores :
          /\ estado[w] = "AWAITING_MODEL"
          /\ consumidor[w] = "modelo"
          /\ unacked[w] = << >>
          /\ ~modelo_cargado[w]

\* C20: a scenario whose evaluation always raises is negatively acknowledged
\* with requeue at every delivery, after which it is ready again and the
\* worker is free to be delivered it again; it is never acknowledged, never
\* out of cola_escenarios (ready or in flight), no Resultado is published
\* for it, and its campaign never has all its scenarios acknowledged.
C20_MaloSinFin ==
    [][/\ \A w \in Consumidores : \A res \in ResCallback :
             (CallbackEscenario(w, res) /\ Head(unacked[w]) \in malos)
             => /\ Head(unacked[w]) \in Mensajes(cola_escenarios')
                /\ [cola |-> "escenarios", msg |-> Head(unacked[w])] \in rechazados'
                /\ estado'[w] = "STEADY_STATE"
                /\ consumidor'[w] = "escenarios"
                /\ unacked'[w] = << >>
       /\ \A m \in malos' :
             /\ \A c \in confirmados' : c.msg # m
             /\ \A k \in 1 .. Len(resultadosEnviados') : ~EsDe(resultadosEnviados'[k], m)
             /\ \/ m \in Mensajes(cola_escenarios')
                \/ \E w \in Consumidores : m \in Mensajes(unacked'[w])
             /\ m.camp = corrida' => ~Completo']_vars

\* the run is over and its other scenario acknowledged; the bad one was
\* rejected and is ready once more, with a worker consuming
C20_Witness ==
    \E m \in malos :
        /\ pc = "DONE"
        /\ m.camp = corrida
        /\ [cola |-> "escenarios", msg |-> m] \in rechazados
        /\ cola_escenarios = <<m>>
        /\ \A x \in enviados \ {m} : Confirmado(x)
        /\ Cardinality(enviados) = 2
        /\ \E w \in Consumidores : estado[w] = "STEADY_STATE" /\ unacked[w] = << >>

\* C21: the evaluator resolves only the declared variables of the Modelo and
\* sin, cos, exp, log, sqrt, abs, max, min: whenever Modelo.ejecutar returns
\* a value, every name the expression reads is one of those.
Permitidas == {"sin", "cos", "exp", "log", "sqrt", "abs", "max", "min"}
C21_SoloDeclaradas ==
    resultado.tipo = "valor"
        => objeto.funcion \subseteq NombresDeclarados(objeto) \cup Permitidas

\* an expression that reads np was evaluated, with a value for each variable
C21_Witness ==
    /\ resultado.tipo = "valor"
    /\ "np" \in objeto.funcion
    /\ valores.claves = NombresDeclarados(objeto)

\* C23: serializar and deserializar are exact inverses. A Modelo comes back
\* from its own message field for field ...
C23_IdaYVuelta ==
    objeto.tipo = "modelo" => Deserializar(Serializar(objeto)) = objeto

\* ... and every model message comes back from the Modelo made of it.
C23_Inversas ==
    /\ C23_IdaYVuelta
    /\ mensaje.tipo = "mensaje" => Serializar(Deserializar(mensaje)) = mensaje

\* a message of two variables, one of them written Normal, was deserialized
C23_Witness ==
    /\ archivo = Nada
    /\ mensaje.tipo = "mensaje"
    /\ Len(mensaje.variables) = 2
    /\ mensaje.variables[1].nombre # mensaje.variables[2].nombre
    /\ mensaje.variables[1].distribucion = "Normal"
    /\ objeto = Deserializar(mensaje)

\* C24: for a Modelo whose variables all have a supported distribution, the
\* value mapping generar_escenario returns has exactly the declared names of
\* the Modelo as its keys.
C24_ClavesDeclaradas ==
    [][PasoGenerar /\ (\A i \in 1 .. Len(objeto.variables) :
                          objeto.variables[i].distribucion \in Soportadas)
          => /\ valores'.tipo = "valores"
             /\ valores'.claves = NombresDeclarados(objeto)
             /\ objeto' = objeto]_vars

\* a scenario with a value for x and one for y was generated
C24_Witness ==
    /\ objeto.tipo = "modelo"
    /\ Len(objeto.variables) = 2
    /\ valores = GenerarEscenario(objeto)
    /\ valores.tipo = "valores"
    /\ valores.claves = {"x", "y"}
    /\ resultado = Nada

\* C25: parsear_archivo fails when FUNCION: is absent, when VARIABLES: is
\* absent, or when no line of the variables section has the shape
\* name: distribution(...); it returns a Modelo only when a line matched.
C25_ErroresDeParseo ==
    [][Parsear =>
          LET completo == /\ archivo.tieneFuncion
                          /\ archivo.encabezado
                          /\ \E i \in 1 .. Len(archivo.lineas) :
                                archivo.lineas[i].coincide
          IN  /\ objeto'.tipo = "modelo" => completo
              /\ ~completo => resultado' = ErrorValor /\ objeto' = Nada]_vars

\* a file with FUNCION:, VARIABLES: and one line of another shape was
\* parsed: a Modelo without variables
C25_Witness ==
    /\ archivo.tipo = "archivo"
    /\ archivo.tieneFuncion /\ archivo.encabezado
    /\ Len(archivo.lineas) = 1
    /\ ~archivo.lineas[1].coincide
    /\ objeto = ParsearArchivo(archivo)
    /\ objeto.tipo = "modelo"
    /\ objeto.variables = << >>

NoSoportado(m) ==
    /\ m.tipo = "modelo"
    /\ \E i \in 1 .. Len(m.variables) : m.variables[i].distribucion \notin Soportadas

C28_DistribucionNoSoportada ==
    [][/\ \A n \in ValoresNumEscenarios :
             Ejecutar(n, "distribucion")
             => /\ NoSoportado(modeloProd')
                /\ Deserializar(Serializar(modeloProd')) = modeloProd'
                /\ modeloEnviado'
                /\ cola_modelo' = <<MensajeModelo(corrida')>>
                /\ pc' = IF n = 0 THEN "DONE" ELSE "GENERATE_AND_PUBLISH_SCENARIOS"
       /\ NoSoportado(modeloProd') => escenarios_publicados' = 0
       /\ (NoSoportado(modeloProd) /\ pc = "GENERATE_AND_PUBLISH_SCENARIOS" /\ pc' # pc)
             => /\ pc' = "ERROR"
                /\ enviados' = enviados
                /\ cola_escenarios' = cola_escenarios
                /\ publicadorProd' = "closed"]_vars

\* the run on the model with poisson has failed in the loop: its model is in
\* cola_modelo, two scenarios were asked for and none is published
C28_Witness ==
    /\ pc = "ERROR"
    /\ NoSoportado(modeloProd)
    /\ modeloEnviado
    /\ MensajeModelo(corrida) \in Mensajes(cola_modelo)
    /\ num_escenarios = 2
    /\ escenarios_publicados = 0
    /\ \A m \in enviados : m.camp # corrida

\* C29: a worker never consumes or evaluates a scenario before it has loaded
\* a model: it is in STEADY_STATE or has a scenario consumer only with
\* modelo_cargado and a publicador, and a worker whose wait for the model is
\* ended by an interrupt ends in error, without scenario consumer and with
\* zero scenarios processed.
C29_SinModeloNoConsume ==
    [][\A w \in Consumidores :
          /\ (estado'[w] = "STEADY_STATE" \/ consumidor'[w] = "escenarios")
                => /\ modelo_cargado'[w]
                   /\ modelo'[w] \in Corridas
                   /\ publicador'[w] # "none"
          /\ ~modelo_cargado'[w]
                => /\ escenarios_procesados'[w] = 0
                   /\ resultados_publicados'[w] = 0
                   /\ \A c \in confirmados' : c.por # w
          /\ InterrumpirEspera(w)
                => /\ estado'[w] = "ERROR"
                   /\ ~modelo_cargado'[w]
                   /\ consumidor'[w] = "closed"
                   /\ unacked'[w] = << >>
                   /\ cola_escenarios' = cola_escenarios]_vars

\* a worker was interrupted while it waited for the model; scenarios are
\* ready in cola_escenarios and it has consumed none
C29_Witness ==
    \E w \in Consumidores :
        /\ estado[w] = "ERROR"
        /\ ~modelo_cargado[w]
        /\ consumidor[w] = "closed"
        /\ publicador[w] = "closed"
        /\ escenarios_procesados[w] = 0
        /\ cola_escenarios # << >>

\* C30: every Resultado is computed with the Modelo of the campaign that
\* produced its scenario, also when the Productor runs a second time, with
\* another model, while workers that loaded the first one are in STEADY_STATE.
C30_ModeloDeLaCampana ==
    \A k \in 1 .. Len(resultadosEnviados) :
        resultadosEnviados[k].modelo = resultadosEnviados[k].camp

\* a worker that loaded the model of the first run has published the
\* Resultado of a scenario of the second run, computed with the first model
C30_Witness ==
    \E k \in 1 .. Len(resultadosEnviados) :
        /\ resultadosEnviados[k].camp = 2
        /\ resultadosEnviados[k].modelo = 1
        /\ corrida = 2
        /\ modeloEnviado
        /\ modelo[resultadosEnviados[k].consumer_id] = 1

\* C26: the dashboard keeps a bounded window of results: whatever number of
\* results it has received, the results ResultadoReceiver holds, those
\* Dashboard computes mean, deviation, minimum and maximum over, and those of
\* the graph are never more than the window.
C26_VentanaAcotada ==
    /\ Len(resultadosDash) <= MaxLenGrafico
    /\ Len(panelDash) <= MaxLenGrafico
    /\ Len(graficoDash) <= MaxLenGrafico

\* one result more than the window was received and shown: the graph holds
\* the window, both lists hold them all
C26_Witness ==
    /\ Len(resultadosDash) = MaxLenGrafico + 1
    /\ Len(panelDash) = MaxLenGrafico + 1
    /\ Len(graficoDash) = MaxLenGrafico
    /\ senalesDash = << >>

\* C27: every message delivered to callback_resultado ends in one of two
\* ways: the result is appended, the counters of its worker incremented and
\* the message acknowledged, or the handling fails and the message is
\* rejected without requeue. It is never ready in cola_resultados again, so
\* no message is delivered a second time.
C27_AckONackSinRequeue ==
    [][CallbackResultado =>
          LET m == Head(unackedDash)
              id == IdDe(m.cuerpo)
              fin == historialDash'[Len(historialDash')].fin
              contado ==
                  /\ resultadosDash' = Append(resultadosDash, m.cuerpo)
                  /\ estadisticasDash'[id].escenarios_procesados
                        = estadisticasDash[id].escenarios_procesados + 1
                  /\ estadisticasDash'[id].resultados_publicados
                        = estadisticasDash[id].resultados_publicados + 1
          IN /\ Len(historialDash') = Len(historialDash) + 1
             /\ historialDash'[Len(historialDash')].tag = m.tag
             /\ fin \in {"ack", "nack"}
             /\ fin = "ack" <=> contado
             /\ fin = "nack" => estadisticasDash' = estadisticasDash
             /\ cola_resultados' = cola_resultados
             /\ m \notin Mensajes(unackedDash')
             /\ \A i, j \in 1 .. Len(historialDash') :
                   historialDash'[i].tag = historialDash'[j].tag => i = j]_vars

\* a body that is no JSON was rejected and a Resultado of consumer_1
\* acknowledged; cola_resultados is empty
C27_Witness ==
    /\ Len(historialDash) = 2
    /\ historialDash[1].fin = "nack"
    /\ historialDash[2].fin = "ack"
    /\ resultadosDash = <<[forma |-> "dict", consumer_id |-> "consumer_1"]>>
    /\ estadisticasDash["consumer_1"].escenarios_procesados = 1
    /\ cola_resultados = << >>
    /\ unackedDash = << >>

\* C31: whenever ejecutar of the Productor or of a worker has terminated, by
\* return, by an error or by an interrupt, every connection to the broker
\* that process opened is closed.
C31_TodoCerrado ==
    /\ pc \in {"DONE", "ERROR"}
          => ConexionesAbiertasProd = 0 /\ sueltas["productor"] = 0
    /\ \A w \in Consumidores :
          estado[w] \in {"TERMINADO", "ERROR"}
             => ConexionesAbiertas(w) = 0 /\ sueltas[w] = 0

\* ejecutar of the Productor has raised out of Publicador(): it connected,
\* queue_declare raised, there is no publicador to close and the connection
\* is open
C31_Witness ==
    /\ pc = "ERROR"
    /\ publicadorProd = "none"
    /\ conexionesProd = 1
    /\ sueltas["productor"] = 1

\* the same end in a worker, out of Consumidor(COLA_MODELO): its publicador
\* is closed, the connection of the consumer is not
C31_WitnessWorker ==
    \E w \in Consumidores :
        /\ estado[w] = "ERROR"
        /\ publicador[w] = "closed"
        /\ consumidor[w] = "none"
        /\ sueltas[w] = 1

\* C32: whatever the sequence of calls of iniciar and detener, at most one
\* thread of the ResultadoReceiver is running _consumir_resultados at any
\* time, and a thread that has left its loop has closed the connection of
\* its Consumidor.
HiloActivo(h) == estadoHilo[h] \in {"inicio", "bucle", "eventos"}

C32_UnSoloHilo ==
    /\ Cardinality({h \in Hilos : HiloActivo(h)}) <= 1
    /\ \A h \in Hilos :
          estadoHilo[h] = "fin" => conexionHilo[h] \in {"none", "closed"}

\* after iniciar, detener, iniciar the first thread has found ejecutando true
\* again: two threads are in the loop, and self.consumidor is the second's
C32_Witness ==
    /\ ejecutando
    /\ estadoHilo[1] \in {"bucle", "eventos"}
    /\ estadoHilo[2] \in {"bucle", "eventos"}
    /\ consumidorRec = 2
    /\ conexionHilo[1] = "cancelado"
    /\ conexionHilo[2] = "consumiendo"

\* both threads have ended: the first one closed the Consumidor of the second
\* and left its own connection open
C32_WitnessAbierta ==
    /\ estadoHilo[1] = "fin"
    /\ estadoHilo[2] = "fin"
    /\ conexionHilo[1] = "cancelado"
    /\ conexionHilo[2] = "closed"

\* the part about the end of the thread, as the claim words it
C32_DetenerTermina ==
    \A h \in Hilos : (HiloActivo(h) /\ ~ejecutando) ~> estadoHilo[h] = "fin"

====
